---- MODULE Spec2Model ----
(***************************************************************************)
(* Model of the MIT OCW course-graph pipeline: scripts/fetch_mit_ocw.py    *)
(* (MITOCWScraper: identifier recognition, relation merging, the course    *)
(* store, build_graph, run) and scripts/stats.py (analyze_graph).          *)
(*                                                                         *)
(* Python strings are modelled as sequences of one-character strings, so   *)
(* that pattern matching, upper-casing and lexicographic sorting are       *)
(* computed character by character.  A Python local that is read several   *)
(* times is passed as the argument of an operator that models the rest of  *)
(* the function.                                                           *)
(***************************************************************************)
EXTENDS Integers, Sequences, FiniteSets, TLC

VARIABLES
    pc,            \* position of the modelled call
    text,          \* argument of extract_course_id / parse_prerequisites
    recognized,    \* value returned by extract_course_id
    found,         \* value returned by parse_prerequisites
    candidates,    \* fetch_course_page: raw `prerequisites` list before line 303
    own_id,        \* fetch_course_page: `course_id` at line 307
    merged,        \* fetch_course_page: `prerequisites` after line 309
    course_urls,   \* run: the list returned by fetch_course_list
    max_courses,   \* run: the max_courses argument, <<>> for None, <<n>> for n
    idx,           \* run: number of URLs of the loop already processed
    courses,       \* self.courses, in dict (insertion) order
    previous,      \* history: self.courses before the last step that stored
    course,        \* run: the value last returned by fetch_course_page
    id_source,     \* history: where the last course_id came from
    mined,         \* history: the lists of lines 228-229 before line 303
    upserted,      \* history: the Course object last assigned to each key
    graph,         \* the value returned by build_graph
    stats          \* the figures computed by analyze_graph

vars == <<pc, text, recognized, found, candidates, own_id, merged, course_urls,
          max_courses, idx, courses, previous, course, id_source, mined,
          upserted, graph, stats>>

(***************************************************************************)
(* Characters and strings                                                  *)
(***************************************************************************)

\* Python's None where a string may stand: no string, since every string is
\* a sequence of characters.
None == <<"None">>

\* Python's None where a Course or a dict may stand.
NoneRecord == [none |-> TRUE]

\* The characters of the texts, in the order of their code points.
CodePoints ==
    <<"\n", " ", ",", "-", ".", "/",
      "0", "1", "2", "3", "4", "5", "6", "7", "8", "9", ":",
      "A", "B", "C", "D", "E", "F", "G", "H", "I", "J", "K", "L", "M",
      "N", "O", "P", "Q", "R", "S", "T", "U", "V", "W", "X", "Y", "Z",
      "a", "b", "c", "d", "e", "f", "g", "h", "i", "j", "k", "l", "m",
      "n", "o", "p", "q", "r", "s", "t", "u", "v", "w", "x", "y", "z">>

LowerCase == <<"a", "b", "c", "d", "e", "f", "g", "h", "i", "j", "k", "l", "m",
               "n", "o", "p", "q", "r", "s", "t", "u", "v", "w", "x", "y", "z">>

UpperCase == <<"A", "B", "C", "D", "E", "F", "G", "H", "I", "J", "K", "L", "M",
               "N", "O", "P", "Q", "R", "S", "T", "U", "V", "W", "X", "Y", "Z">>

Range(s) == {s[k] : k \in DOMAIN s}

IndexOf(s, c) == CHOOSE k \in DOMAIN s : s[k] = c

MinOf(ns) == CHOOSE a \in ns : \A b \in ns : a <= b

MaxOf(ns) == CHOOSE a \in ns : \A b \in ns : a >= b

\* \d
IsDigit(c) == c \in {"0", "1", "2", "3", "4", "5", "6", "7", "8", "9"}

\* [A-Z] under re.IGNORECASE
IsLetter(c) == c \in Range(LowerCase) \cup Range(UpperCase)

\* The rank of c among the code points: Python compares strings by ord(c).
ord(c) == IndexOf(CodePoints, c)

\* str.upper(), one character.
UpperChar(c) ==
    IF c \in Range(LowerCase) THEN UpperCase[IndexOf(LowerCase, c)] ELSE c

\* str.lower(), one character.
LowerChar(c) ==
    IF c \in Range(UpperCase) THEN LowerCase[IndexOf(UpperCase, c)] ELSE c

\* str.upper()
Upper(s) == [k \in DOMAIN s |-> UpperChar(s[k])]

\* s < t for Python strings: by the first differing code point, a proper
\* prefix before the longer string.
StrLess(s, t) ==
    \E k \in 1..Len(t) :
        /\ k <= Len(s) + 1
        /\ \A j \in 1..(k - 1) : s[j] = t[j]
        /\ \/ k = Len(s) + 1
           \/ ord(s[k]) < ord(t[k])

\* s[from:to] with 1-based inclusive bounds, clipped to the string.
Slice(s, from, to) ==
    IF from > to \/ from > Len(s) THEN <<>>
    ELSE SubSeq(s, from, IF to > Len(s) THEN Len(s) ELSE to)

\* The character at position k, or the empty string beyond either end.
At(s, k) == IF k \in DOMAIN s THEN s[k] ELSE ""

\* Of the pairs <<start, ...>> the one that starts first; <<0, 0>> if none.
leftmost(ms) ==
    IF ms = {} THEN <<0, 0>>
    ELSE CHOOSE a \in ms : \A b \in ms : a[1] <= b[1]

\* \d+ from position k: the position of the last character of the longest
\* run of digits that starts there; k - 1 when s[k] is no digit.
digits_end(s, k) ==
    MinOf({j \in k..(Len(s) + 1) : ~IsDigit(At(s, j))}) - 1

RECURSIVE FlattenSeq(_)
FlattenSeq(ss) ==
    IF ss = <<>> THEN <<>> ELSE Head(ss) \o FlattenSeq(Tail(ss))

RECURSIVE SumSeq(_)
SumSeq(ns) == IF ns = <<>> THEN 0 ELSE Head(ns) + SumSeq(Tail(ns))

\* The least string of a non-empty set of strings.
least_of(S) == CHOOSE a \in S : \A b \in S \ {a} : StrLess(a, b)

\* sorted(list(S)) for a set S of strings.
RECURSIVE sorted(_)
least_first(S, least) == <<least>> \o sorted(S \ {least})

sorted(S) == IF S = {} THEN <<>> ELSE least_first(S, least_of(S))

(***************************************************************************)
(* Identifier Recognizer: course_pattern, extract_course_id,               *)
(* parse_prerequisites                                                     *)
(***************************************************************************)

\* The end of a match whose digits end at position d: [A-Z]? is greedy.
optional_letter(s, d) == IF IsLetter(At(s, d + 1)) THEN d + 1 ELSE d

\* re.compile(r'(\d{2}\.\d{2,3}[A-Z]?)', re.IGNORECASE) tried at position k:
\* the position of the last character matched (the quantifiers are greedy
\* and nothing follows them), or 0 when the pattern does not match there.
course_pattern(s, k) ==
    IF /\ IsDigit(At(s, k)) /\ IsDigit(At(s, k + 1))
       /\ At(s, k + 2) = "."
       /\ IsDigit(At(s, k + 3)) /\ IsDigit(At(s, k + 4))
    THEN optional_letter(s, IF IsDigit(At(s, k + 5)) THEN k + 5 ELSE k + 4)
    ELSE 0

\* The matches <<start, end>> of course_pattern from position `from` on.
course_pattern_matches(s, from) ==
    {m \in {<<k, course_pattern(s, k)>> : k \in from..Len(s)} : m[2] # 0}

\* course_pattern.search from position `from`: <<start, end>> of the leftmost
\* match, or <<0, 0>>.
course_pattern_search(s, from) == leftmost(course_pattern_matches(s, from))

\* Lines 64-66, m being the match.
matched_id(s, m) == IF m[1] # 0 THEN Upper(SubSeq(s, m[1], m[2])) ELSE None

extract_course_id(s) == matched_id(s, course_pattern_search(s, 1))

\* course_pattern.finditer: the successive non-overlapping matches, each
\* search resuming after the previous match.
RECURSIVE course_pattern_finditer(_, _)
match_and_rest(s, m) ==
    IF m[1] = 0 THEN <<>>
    ELSE <<SubSeq(s, m[1], m[2])>> \o course_pattern_finditer(s, m[2] + 1)

course_pattern_finditer(s, from) ==
    match_and_rest(s, course_pattern_search(s, from))

\* Lines 74-77: the set of the matches, upper-cased.
upper_set(matches) == {Upper(matches[k]) : k \in DOMAIN matches}

parse_prerequisites(s) ==
    IF s = <<>> THEN <<>>
    ELSE sorted(upper_set(course_pattern_finditer(s, 1)))


(***************************************************************************)
(* Relation Merger: fetch_course_page, lines 302-309                       *)
(***************************************************************************)

\* Python truthiness of an Optional[str]: neither None nor ''.
Truthy(x) == x # None /\ x # <<>>

\* [p for p in ids if p != course_id]
without(ids, course_id) == SelectSeq(ids, LAMBDA p : p # course_id)

\* A filter that drops the first identifier of the list, whatever it is.
remove_first(unique, course_id) ==
    IF unique = <<>> THEN unique ELSE Tail(unique)

\* Lines 306-309 applied to one list: the self-reference filter runs only
\* if course_id is set by then.
remove_self(unique, course_id) ==
    IF Truthy(course_id) THEN without(unique, course_id) ELSE unique

\* A merger without line 303: the list is neither deduplicated nor sorted.
merge_unsorted(ids, course_id) == remove_self(ids, course_id)

\* u as many times as ids holds it.
repeated(ids, u) ==
    [j \in 1..Cardinality({i \in DOMAIN ids : ids[i] = u}) |-> u]

\* A merger that sorts without set(): sorted(ids), repeats kept.
merge_with_repeats(ids, course_id) ==
    remove_self(FlattenSeq([k \in DOMAIN sorted(Range(ids)) |->
                               repeated(ids, sorted(Range(ids))[k])]),
                course_id)

\* Lines 302-309 applied to one list: sorted(list(set(ids))), then the
\* self-reference filter.
merge(ids, course_id) == remove_self(sorted(Range(ids)), course_id)

(***************************************************************************)
(* fetch_course_page                                                       *)
(***************************************************************************)

\* [:\s]+ from position k: the position of the last character of the
\* longest run of colons and white space that starts there, or k - 1.  The
\* white space of the texts is the space and the newline.
colon_space_end(s, k) ==
    MinOf({j \in k..(Len(s) + 1) : At(s, j) \notin {":", " ", "\n"}}) - 1

\* A window that runs to the end of the line, full stops included.
line_end(s, k) ==
    MinOf({j \in k..(Len(s) + 1) : At(s, j) \in {"", "\n"}}) - 1

\* [^\.\n]+ from position k: the position of the last character of the
\* longest run without full stop and newline that starts there, or k - 1.
sentence_end(s, k) ==
    MinOf({j \in k..(Len(s) + 1) : At(s, j) \in {"", ".", "\n"}}) - 1

\* The part of s between the first and the last of the positions kept.
between(s, kept) ==
    IF kept = {} THEN <<>> ELSE SubSeq(s, MinOf(kept), MaxOf(kept))

\* str.strip()
strip(s) == between(s, {k \in DOMAIN s : s[k] \notin {" ", "\n"}})

\* The part of s up to the last of the positions kept.
up_to(s, kept) == IF kept = {} THEN <<>> ELSE SubSeq(s, 1, MaxOf(kept))

\* str.rstrip('/')
rstrip_slash(s) == up_to(s, {k \in DOMAIN s : s[k] # "/"})

\* The part of s after the last of the positions.
after(s, slashes) ==
    IF slashes = {} THEN s ELSE SubSeq(s, MaxOf(slashes) + 1, Len(s))

\* s.split('/')[-1]
last_part(s) == after(s, {k \in DOMAIN s : s[k] = "/"})

\* s.replace('-', '.')
replace_dash(s) == [k \in DOMAIN s |-> IF s[k] = "-" THEN "." ELSE s[k]]

\* The rest of r'(\d+[-.]\d+)' after a first run of digits that ends at e.
number_tail(s, e) ==
    IF At(s, e + 1) \in {"-", "."} /\ IsDigit(At(s, e + 2))
    THEN digits_end(s, e + 2)
    ELSE 0

\* r'(\d+[-.]\d+)' tried at position k: the position of the last character
\* of the group, or 0.  Giving digits back never helps either \d+, since
\* the character after a shorter run of digits is a digit.
number_pattern(s, k) ==
    IF ~IsDigit(At(s, k)) THEN 0 ELSE number_tail(s, digits_end(s, k))

\* match.group(1), or None when there is no match.
group(s, m) == IF m[1] = 0 THEN None ELSE SubSeq(s, m[1], m[2])

\* The matches <<start, end>> of r'(\d+[-.]\d+)' in s.
number_matches(s) ==
    {m \in {<<k, number_pattern(s, k)>> : k \in DOMAIN s} : m[2] # 0}

\* re.search(r'(\d+[-.]\d+)', s): group 1 of the leftmost match, or None.
number_search(s) == group(s, leftmost(number_matches(s)))

\* The groups <<start, end>> of the matches of r'/(\d+[-.]\d+)-' in s.
slash_number_matches(s) ==
    {m \in {<<k + 1, number_pattern(s, k + 1)>> :
               k \in {j \in DOMAIN s : s[j] = "/"}} :
        m[2] # 0 /\ At(s, m[2] + 1) = "-"}

\* re.search(r'/(\d+[-.]\d+)-', s): group 1 of the leftmost match, or None.
slash_number_search(s) == group(s, leftmost(slash_number_matches(s)))

\* "prerequisite"
keyword ==
    <<"p", "r", "e", "r", "e", "q", "u", "i", "s", "i", "t", "e">>

\* The run [:\s]+ is b..r and no sentence character follows it: the run
\* gives back its last character that is no newline, and the group is that
\* one character.
given_back(back) ==
    IF back = {} THEN <<0, 0>> ELSE <<MaxOf(back), MaxOf(back)>>

\* ([^\.\n]+) after the run b..r of [:\s]+, the sentence characters that
\* follow it ending at g.
sentence_group(s, b, r, g) ==
    IF g > r THEN <<r + 1, g>>
    ELSE given_back({q \in (b + 1)..r : s[q] # "\n"})

\* [:\s]+([^\.\n]+) from position b, the run of [:\s] ending at r.
sentence_run(s, b, r) ==
    IF r < b THEN <<0, 0>>
    ELSE sentence_group(s, b, r, sentence_end(s, r + 1))

\* [:\s]+([^\.\n]+) from position b, just after the optional s.
after_plural(s, b) == sentence_run(s, b, colon_space_end(s, b))

\* [s]?[:\s]+([^\.\n]+) from position a, just after the keyword.
sentence_tail(s, a) ==
    after_plural(s, IF LowerChar(At(s, a)) = "s" THEN a + 1 ELSE a)

\* r'prerequisite[s]?[:\s]+([^\.\n]+)' with re.I tried at position k:
\* <<first, last>> positions of group 1, or <<0, 0>>.
sentence_pattern(s, k) ==
    IF \E j \in DOMAIN keyword : LowerChar(At(s, k + j - 1)) # keyword[j]
    THEN <<0, 0>>
    ELSE sentence_tail(s, k + Len(keyword))

\* The groups <<first, last>> of the matches of the sentence pattern that
\* start at position `from` or later.  The keyword cannot overlap itself,
\* so a match that starts later has a group that starts later.
sentence_matches(s, from) ==
    {m \in {sentence_pattern(s, k) : k \in from..Len(s)} : m[1] # 0}

\* Method 4 (lines 284-290): for every match of the sentence pattern in the
\* page text, from position `from` on, the identifiers of its group 1.
RECURSIVE sentence_window_scan(_, _)
window_and_rest(page_text, m) ==
    IF m[1] = 0 THEN <<>>
    ELSE parse_prerequisites(SubSeq(page_text, m[1], m[2]))
             \o sentence_window_scan(page_text, m[2] + 1)

sentence_window_scan(page_text, from) ==
    window_and_rest(page_text, leftmost(sentence_matches(page_text, from)))

\* found = self.parse_prerequisites(...) and extend(found), for each text.
parse_each(texts) ==
    FlattenSeq([k \in DOMAIN texts |-> parse_prerequisites(texts[k])])

\* Lines 256-290 for one page_soup: what Methods 1 to 3 find in the texts
\* the HTML traversal hands to parse_prerequisites, then Method 4.
mine_prerequisites(page_soup) ==
    parse_each(page_soup.prereq_texts)
        \o sentence_window_scan(page_soup.page_text, 1)

\* Lines 292-300 for one page_soup.
mine_corequisites(page_soup) == parse_each(page_soup.coreq_texts)

\* The dataclass Course.  Every caller passes prerequisites as a list;
\* corequisites, where a caller omits it, is the [] of __post_init__.
Course(course_id, title, url, department, level, description, prerequisites, corequisites, ocw_published) ==
    [course_id |-> course_id, title |-> title, url |-> url,
     department |-> department, level |-> level,
     description |-> description, prerequisites |-> prerequisites,
     corequisites |-> corequisites, ocw_published |-> ocw_published]

\* "Course "
course_prefix == <<"C", "o", "u", "r", "s", "e", " ">>

\* text.strip() of an element that may be absent.
strip_found(elem_text) == IF elem_text # None THEN strip(elem_text) ELSE None

\* Lines 240-243: the course_id found in the title or heading.
title_course_id(page) ==
    IF page.title_text # None THEN extract_course_id(page.title_text)
    ELSE None

\* Lines 322-327, match being that of line 322.
number_or_pattern(part, match) ==
    IF match # None THEN Upper(replace_dash(match))
    ELSE extract_course_id(part)

\* Lines 320-327, last_part being url_parts[-1].
part_course_id(part) == number_or_pattern(part, number_search(part))

\* Lines 316-327: the course_id taken from the last part of the URL.
url_course_id(url) == part_course_id(last_part(rstrip_slash(url)))

\* Lines 332-333, match being that of line 331.
dashed_number(match) ==
    IF match # None THEN Upper(replace_dash(match)) ELSE None

\* Lines 331-333: the last resort.
last_resort_course_id(url) == dashed_number(slash_number_search(url))

\* Lines 329-333, course_id being that after line 327.
or_last_resort(course_id, url) ==
    IF ~Truthy(course_id) THEN last_resort_course_id(url) ELSE course_id

\* Lines 316-333: course_id after the fallbacks.
resolve_course_id(course_id, url) ==
    or_last_resort(IF ~Truthy(course_id) THEN url_course_id(url)
                   ELSE course_id, url)

\* prerequisites.extend(found) over pages_to_check (line 256).
all_prerequisites(soups) ==
    FlattenSeq([k \in DOMAIN soups |-> mine_prerequisites(soups[k])])

\* corequisites.extend(found) over pages_to_check.
all_corequisites(soups) ==
    FlattenSeq([k \in DOMAIN soups |-> mine_corequisites(soups[k])])

\* A Course that is given the department its identifier begins with.
make_course_in_department(course_id, title, url, description, prerequisites, corequisites) ==
    IF ~Truthy(course_id) THEN NoneRecord
    ELSE Course(course_id,
                IF Truthy(title) THEN title ELSE course_prefix \o course_id,
                url, SubSeq(course_id, 1, 2), None, description,
                prerequisites, corequisites, TRUE)

\* Lines 335-350, course_id being that after line 333.
make_course(course_id, title, url, description, prerequisites, corequisites) ==
    IF ~Truthy(course_id) THEN NoneRecord
    ELSE Course(course_id,
                IF Truthy(title) THEN title ELSE course_prefix \o course_id,
                url, None, None, description, prerequisites, corequisites,
                TRUE)

\* Lines 302-350, course_id being that of the title (line 243): the lists
\* are merged against it before the URL fallbacks set it.
merge_and_resolve(course_id, page, url) ==
    make_course(resolve_course_id(course_id, url),
                strip_found(page.title_text), url,
                strip_found(page.meta_description),
                merge(all_prerequisites(page.soups), course_id),
                merge(all_corequisites(page.soups), course_id))

\* fetch_course_page(url), the response being `page`: the Course, or None
\* (NoneRecord) after an exception or when no course_id is found.
fetch_course_page(url, page) ==
    IF page.error THEN NoneRecord
    ELSE merge_and_resolve(title_course_id(page), page, url)

\* Where the course_id of the fetched course came from.
course_id_source(fetched, page) ==
    IF fetched = NoneRecord THEN "none"
    ELSE IF Truthy(title_course_id(page)) THEN "title"
    ELSE "url"

\* The lists `prerequisites` and `corequisites` of lines 228-229 as line 303
\* finds them; None after an exception.
mined_lists(page) ==
    IF page.error THEN NoneRecord
    ELSE [prerequisites |-> all_prerequisites(page.soups),
          corequisites |-> all_corequisites(page.soups)]

(***************************************************************************)
(* The Course Record Store: self.courses, a dict in insertion order,       *)
(* modelled as the sequence of its items.                                  *)
(***************************************************************************)

dict_keys(d) == {d[k].key : k \in DOMAIN d}

dict_get(d, key) == d[CHOOSE k \in DOMAIN d : d[k].key = key].value

\* An assignment that always adds an item, as to a list of pairs.
dict_set_appending(d, key, value) ==
    Append(d, [key |-> key, value |-> value])

\* d[key] = value: a known key keeps its place, a new one goes last.
dict_set(d, key, value) ==
    IF key \in dict_keys(d)
    THEN [k \in DOMAIN d |->
             IF d[k].key = key THEN [key |-> key, value |-> value] ELSE d[k]]
    ELSE Append(d, [key |-> key, value |-> value])

\* An upsert that merges on conflict: a known course keeps the
\* prerequisites it had.
upsert_keeping(d, c) ==
    IF c.course_id \in dict_keys(d)
    THEN dict_set(d, c.course_id,
                  [c EXCEPT !.prerequisites =
                                dict_get(d, c.course_id).prerequisites])
    ELSE dict_set(d, c.course_id, c)

\* self.courses[course.course_id] = course
upsert(d, c) == dict_set(d, c.course_id, c)


(***************************************************************************)
(* build_graph                                                             *)
(***************************************************************************)

\* ": "
label_separator == <<":", " ">>

\* Lines 363-371.
graph_node(c) ==
    [id |-> c.course_id,
     label |-> c.course_id \o label_separator \o c.title,
     title |-> c.title, url |-> c.url, department |-> c.department,
     level |-> c.level, description |-> c.description]

\* An edge drawn from the course that lists the identifier to the course
\* listed.
graph_edge_reversed(source, target, type) ==
    [source |-> target, target |-> source, type |-> type, label |-> type]

\* Lines 377-382 and 388-393.
graph_edge(source, target, type) ==
    [source |-> source, target |-> target, type |-> type, label |-> type]

\* One edge into `target` for each of the identifiers.
edges_into(sources, target, type) ==
    [j \in DOMAIN sources |-> graph_edge(sources[j], target, type)]

\* A build_graph without the tests of lines 376 and 387.
in_courses_all(d, ids) == ids

\* Lines 375-376 and 386-387: the identifiers of the list that are keys of
\* self.courses.
in_courses(d, ids) == SelectSeq(ids, LAMBDA p : p \in dict_keys(d))

\* Lines 374-382 (field "prerequisites") and 385-393 ("corequisites"): for
\* every item of the dict, in order, one edge per listed identifier that
\* is a key of the dict.
relation_edges(d, field, type) ==
    FlattenSeq([k \in DOMAIN d |->
        edges_into(in_courses(d, d[k].value[field]), d[k].key, type)])

\* Counters that count only the entries that are keys of the store.
graph_metadata_resolved(d) ==
    [total_courses |-> Len(d),
     total_prerequisites |->
         SumSeq([k \in DOMAIN d |->
                    Len(in_courses(d, d[k].value.prerequisites))]),
     total_corequisites |->
         SumSeq([k \in DOMAIN d |->
                    Len(in_courses(d, d[k].value.corequisites))])]

\* Counters that count every identifier once, however many records list
\* it.
graph_metadata_distinct(d) ==
    [total_courses |-> Len(d),
     total_prerequisites |->
         Cardinality(UNION {Range(d[k].value.prerequisites) :
                               k \in DOMAIN d}),
     total_corequisites |->
         Cardinality(UNION {Range(d[k].value.corequisites) :
                               k \in DOMAIN d})]

\* Lines 398-402.
graph_metadata(d) ==
    [total_courses |-> Len(d),
     total_prerequisites |->
         SumSeq([k \in DOMAIN d |-> Len(d[k].value.prerequisites)]),
     total_corequisites |->
         SumSeq([k \in DOMAIN d |-> Len(d[k].value.corequisites)])]

build_graph(d) ==
    [nodes |-> [k \in DOMAIN d |-> graph_node(d[k].value)],
     edges |-> relation_edges(d, "prerequisites", "prerequisite")
                   \o relation_edges(d, "corequisites", "corequisite"),
     metadata |-> graph_metadata(d)]

(***************************************************************************)
(* analyze_graph (stats.py)                                                *)
(***************************************************************************)

\* "Unknown"
unknown == <<"U", "n", "k", "n", "o", "w", "n">>

\* The [:5] of line 92.
top_limit == 5

\* The `<= 10` of lines 51, 122 and 129.
listing_limit == 10

\* xs with x added at the end unless it is there already.
append_new(xs, x) == IF x \in Range(xs) THEN xs ELSE Append(xs, x)

\* The distinct elements of xs, in the order of their first occurrence.
RECURSIVE first_seen(_)
first_seen(xs) ==
    IF xs = <<>> THEN <<>>
    ELSE append_new(first_seen(SubSeq(xs, 1, Len(xs) - 1)), xs[Len(xs)])

\* The items of a defaultdict(int) whose keys, in insertion order, are ks,
\* after `d[x] += 1` for x in xs.
count_each(xs, ks) ==
    [k \in DOMAIN ks |->
        [key |-> ks[k],
         count |-> Cardinality({j \in DOMAIN xs : xs[j] = ks[k]})]]

\* The items of a defaultdict(int) after `d[x] += 1` for x in xs.
counter(xs) == count_each(xs, first_seen(xs))

\* The counts of the items.
counts_of(items) == {items[k].count : k \in DOMAIN items}

\* The items left in the order they were first met.
in_encounter_order(items) == items

\* sorted(items, key=lambda x: -x[1]): the sort is stable.
RECURSIVE sorted_by_count(_)
taken_first(items, k) ==
    <<items[k]>> \o sorted_by_count(SubSeq(items, 1, k - 1)
                                        \o SubSeq(items, k + 1, Len(items)))

sorted_by_count(items) ==
    IF items = <<>> THEN <<>>
    ELSE taken_first(items,
             MinOf({k \in DOMAIN items :
                       items[k].count = MaxOf(counts_of(items))}))

\* data.get(key, default)
get(data, key, default) == IF key \in DOMAIN data THEN data[key] ELSE default

\* A missing value kept as None.
value_or_none(v) == IF Truthy(v) THEN v ELSE None

\* v or 'Unknown'
value_or_unknown(v) == IF Truthy(v) THEN v ELSE unknown

\* node.get(key) or 'Unknown'
or_unknown(node, key) == value_or_unknown(get(node, key, None))

\* node['id'] of each node.
ids_of(nodes) == [k \in DOMAIN nodes |-> nodes[k].id]

\* dept_courses[name]: the ids of the nodes of the group, in node order.
group_ids(nodes, key, name) ==
    ids_of(SelectSeq(nodes, LAMBDA n : or_unknown(n, key) = name))

\* What lines 49-53 (with_ids) and 64-66 print for the sorted items.
group_lines(nodes, key, with_ids, items) ==
    [g \in DOMAIN items |->
        [name |-> items[g].key, count |-> items[g].count,
         listed |-> with_ids /\ items[g].count <= listing_limit,
         ids |-> group_ids(nodes, key, items[g].key)]]

\* Lines 38-55 and 57-68: the groups, largest first, each with its member
\* ids, which are listed when it has at most listing_limit of them.
group_counts(nodes, key, with_ids) ==
    group_lines(nodes, key, with_ids,
        sorted_by_count(counter([k \in DOMAIN nodes |->
                                    or_unknown(nodes[k], key)])))

\* edge.get('target') of each edge.
targets_of(edges) ==
    [k \in DOMAIN edges |-> get(edges[k], "target", None)]

\* Lines 72-76 and 104-108: the in-degree of every target of an edge of
\* the type, in the order the targets are first met.
in_degrees(edges, type) ==
    counter(targets_of(SelectSeq(edges, LAMBDA e :
                           "type" \in DOMAIN e /\ e.type = type)))

\* Lines 96-97, hits being the positions of the nodes with that id.
first_title(nodes, hits, course_id) ==
    IF hits = {} THEN course_id ELSE nodes[MinOf(hits)].title

\* Lines 96-97: the title shown with a course of the top list.
title_of(nodes, course_id) ==
    first_title(nodes, {k \in DOMAIN nodes : nodes[k].id = course_id},
                course_id)

\* Lines 92-98.
top_list(nodes, top_prereqs) ==
    [k \in DOMAIN top_prereqs |->
        [course_id |-> top_prereqs[k].key,
         count |-> top_prereqs[k].count,
         title |-> title_of(nodes, top_prereqs[k].key)]]

\* Lines 78-100, prereq_counts being the items of the dict of lines 71-75.
prerequisite_figures(nodes, prereq_counts) ==
    IF prereq_counts = <<>> THEN [found |-> FALSE]
    ELSE [found |-> TRUE,
          courses_with_prereqs |-> Len(prereq_counts),
          courses_without_prereqs |-> Len(nodes) - Len(prereq_counts),
          max_prereqs |-> MaxOf(counts_of(prereq_counts)),
          \* avg_prereqs, as <<numerator, denominator>>
          avg_prereqs |->
              <<SumSeq([k \in DOMAIN prereq_counts |->
                           prereq_counts[k].count]),
                Len(prereq_counts)>>,
          top_prereqs |->
              top_list(nodes,
                  Slice(sorted_by_count(prereq_counts), 1, top_limit))]

\* Lines 71-100.
prerequisite_analysis(nodes, edges) ==
    prerequisite_figures(nodes, in_degrees(edges, "prerequisite"))

\* Lines 110-114, coreq_counts being the items of the dict of lines 103-107.
corequisite_figures(coreq_counts) ==
    IF coreq_counts = <<>> THEN [found |-> FALSE]
    ELSE [found |-> TRUE,
          courses_with_coreqs |-> Len(coreq_counts),
          total_coreqs |->
              SumSeq([k \in DOMAIN coreq_counts |-> coreq_counts[k].count])]

\* Lines 103-114.
corequisite_analysis(edges) ==
    corequisite_figures(in_degrees(edges, "corequisite"))

\* Entry points taken to be the nodes that are the source of no edge.
entry_points_by_source(nodes, edges) ==
    SelectSeq(ids_of(nodes),
              LAMBDA id : id \notin {edges[k].source : k \in DOMAIN edges})

\* Entry points that look at the prerequisite edges only.
entry_points_by_prerequisite(nodes, edges) ==
    SelectSeq(ids_of(nodes),
              LAMBDA id : id \notin {edges[k].target :
                                        k \in {j \in DOMAIN edges :
                                                 edges[j].type
                                                     = "prerequisite"}})

\* Lines 119-120: the ids of the nodes that are the target of no edge.
entry_points(nodes, edges) ==
    SelectSeq(ids_of(nodes),
              LAMBDA id : id \notin {edges[k].target : k \in DOMAIN edges})

\* Lines 126-127: the ids of the nodes that are the source of no edge.
end_points(nodes, edges) ==
    SelectSeq(ids_of(nodes),
              LAMBDA id : id \notin {edges[k].source : k \in DOMAIN edges})

\* Figures whose total is the one the metadata announces.
figures_from_metadata(nodes, edges, metadata) ==
    [total_courses |-> get(metadata, "total_courses", 0),
     total_edges |-> Len(edges),
     prerequisite_relationships |-> get(metadata, "total_prerequisites", 0),
     corequisite_relationships |-> get(metadata, "total_corequisites", 0),
     departments |-> group_counts(nodes, "department", TRUE),
     levels |-> group_counts(nodes, "level", FALSE),
     prerequisites |-> prerequisite_analysis(nodes, edges),
     corequisites |-> corequisite_analysis(edges),
     entry_points |-> entry_points(nodes, edges),
     end_points |-> end_points(nodes, edges)]

\* Lines 25-130, after the three reads of lines 21-23: the figures printed.
figures(nodes, edges, metadata) ==
    [total_courses |-> Len(nodes),
     total_edges |-> Len(edges),
     prerequisite_relationships |-> get(metadata, "total_prerequisites", 0),
     corequisite_relationships |-> get(metadata, "total_corequisites", 0),
     departments |-> group_counts(nodes, "department", TRUE),
     levels |-> group_counts(nodes, "level", FALSE),
     prerequisites |-> prerequisite_analysis(nodes, edges),
     corequisites |-> corequisite_analysis(edges),
     entry_points |-> entry_points(nodes, edges),
     end_points |-> end_points(nodes, edges)]

\* Lines 16-19: the graph file is not found, sys.exit(1).
file_not_found == [exit |-> 1]

\* analyze_graph, `data` being the document json.load returns, NoneRecord
\* when there is no file to open.  <<>> is both the list [] and the dict
\* {}: a function of no key.
analyze_graph(data) ==
    IF data = NoneRecord THEN file_not_found
    ELSE figures(get(data, "nodes", <<>>), get(data, "edges", <<>>),
                 get(data, "metadata", <<>>))


(***************************************************************************)
(* Inputs: identifiers, URLs and pages                                     *)
(***************************************************************************)

\* "18.01"
id_18_01 ==
    <<"1", "8", ".", "0", "1">>

\* "18.02"
id_18_02 ==
    <<"1", "8", ".", "0", "2">>

\* "6.006"
id_6_006 ==
    <<"6", ".", "0", "0", "6">>

\* "6.042"
id_6_042 ==
    <<"6", ".", "0", "4", "2">>

\* "6.046"
id_6_046 ==
    <<"6", ".", "0", "4", "6">>

\* "99.99"
id_99_99 ==
    <<"9", "9", ".", "9", "9">>

\* "18.01A"
id_18_01A ==
    <<"1", "8", ".", "0", "1", "A">>

\* "https://ocw.mit.edu/courses/18-01-calculus"
url_18_01 ==
    <<"h", "t", "t", "p", "s", ":", "/", "/", "o", "c", "w", ".", "m", "i",
      "t", ".", "e", "d", "u", "/", "c", "o", "u", "r", "s", "e", "s", "/",
      "1", "8", "-", "0", "1", "-", "c", "a", "l", "c", "u", "l", "u", "s">>

\* "https://ocw.mit.edu/courses/18-02-multivariable/"
url_18_02 ==
    <<"h", "t", "t", "p", "s", ":", "/", "/", "o", "c", "w", ".", "m", "i",
      "t", ".", "e", "d", "u", "/", "c", "o", "u", "r", "s", "e", "s", "/",
      "1", "8", "-", "0", "2", "-", "m", "u", "l", "t", "i", "v", "a", "r",
      "i", "a", "b", "l", "e", "/">>

\* "https://ocw.mit.edu/courses/18-02-multivariable/pages/syllabus"
url_syllabus ==
    <<"h", "t", "t", "p", "s", ":", "/", "/", "o", "c", "w", ".", "m", "i",
      "t", ".", "e", "d", "u", "/", "c", "o", "u", "r", "s", "e", "s", "/",
      "1", "8", "-", "0", "2", "-", "m", "u", "l", "t", "i", "v", "a", "r",
      "i", "a", "b", "l", "e", "/", "p", "a", "g", "e", "s", "/", "s", "y",
      "l", "l", "a", "b", "u", "s">>

\* "https://ocw.mit.edu/courses/6-042j-math"
url_6_042 ==
    <<"h", "t", "t", "p", "s", ":", "/", "/", "o", "c", "w", ".", "m", "i",
      "t", ".", "e", "d", "u", "/", "c", "o", "u", "r", "s", "e", "s", "/",
      "6", "-", "0", "4", "2", "j", "-", "m", "a", "t", "h">>

\* "https://ocw.mit.edu/courses/res-18-001/about"
url_about ==
    <<"h", "t", "t", "p", "s", ":", "/", "/", "o", "c", "w", ".", "m", "i",
      "t", ".", "e", "d", "u", "/", "c", "o", "u", "r", "s", "e", "s", "/",
      "r", "e", "s", "-", "1", "8", "-", "0", "0", "1", "/", "a", "b", "o",
      "u", "t">>

\* "https://ocw.mit.edu/courses/6-006-introduction-to-algorithms"
url_6_006 ==
    <<"h", "t", "t", "p", "s", ":", "/", "/", "o", "c", "w", ".", "m", "i",
      "t", ".", "e", "d", "u", "/", "c", "o", "u", "r", "s", "e", "s", "/",
      "6", "-", "0", "0", "6", "-", "i", "n", "t", "r", "o", "d", "u", "c",
      "t", "i", "o", "n", "-", "t", "o", "-", "a", "l", "g", "o", "r", "i",
      "t", "h", "m", "s">>

\* The URLs fetch_course_list may find.
Urls ==
    {url_18_01, url_18_02, url_syllabus, url_6_042, url_about, url_6_006}

\* The most URLs fetch_course_list returns.
MaxUrls == 3

\* fetch_course_list, `course_links` being the set the three approaches
\* collect: sorted(list(course_links)).
fetch_course_list(course_links) == sorted(course_links)

UrlLists ==
    {fetch_course_list(links) :
        links \in {S \in SUBSET Urls : Cardinality(S) <= MaxUrls}}

\* max_courses is <<>> for None and <<n>> for the integer n.
MaxCoursesArgs == {<<>>, <<0>>, <<1>>, <<MaxUrls + 1>>}

\* "18.01 Calculus"
title_18_01 ==
    <<"1", "8", ".", "0", "1", " ", "C", "a", "l", "c", "u", "l", "u", "s">>

\* " 18.02 Multivariable\n"
title_18_02 ==
    <<" ", "1", "8", ".", "0", "2", " ", "M", "u", "l", "t", "i", "v", "a",
      "r", "i", "a", "b", "l", "e", "\n">>

\* "Prerequisites: 18.01 or 99.99."
prereq_text_a ==
    <<"P", "r", "e", "r", "e", "q", "u", "i", "s", "i", "t", "e", "s", ":",
      " ", "1", "8", ".", "0", "1", " ", "o", "r", " ", "9", "9", ".", "9",
      "9", ".">>

\* "Prerequisite: 18.01, 18.02"
prereq_text_b ==
    <<"P", "r", "e", "r", "e", "q", "u", "i", "s", "i", "t", "e", ":", " ",
      "1", "8", ".", "0", "1", ",", " ", "1", "8", ".", "0", "2">>

\* "Prerequisite: 18.01"
prereq_text_c ==
    <<"P", "r", "e", "r", "e", "q", "u", "i", "s", "i", "t", "e", ":", " ",
      "1", "8", ".", "0", "1">>

\* "Prerequisites: 6.042 or 18.01. Corequisites: 8.01"
relations_text ==
    <<"P", "r", "e", "r", "e", "q", "u", "i", "s", "i", "t", "e", "s", ":",
      " ", "6", ".", "0", "4", "2", " ", "o", "r", " ", "1", "8", ".", "0",
      "1", ".", " ", "C", "o", "r", "e", "q", "u", "i", "s", "i", "t", "e",
      "s", ":", " ", "8", ".", "0", "1">>

\* One page_soup as the HTML traversal presents it: the texts Methods 1 to
\* 3 hand to parse_prerequisites, the page's get_text(), and the texts the
\* corequisite scan hands to parse_prerequisites.
PageSoup(prereq_texts, page_text, coreq_texts) ==
    [prereq_texts |-> prereq_texts, page_text |-> page_text,
     coreq_texts |-> coreq_texts]

\* The response to one fetch: an error, or the title/heading text (None
\* without such an element), the meta description (None without it), and
\* the main page followed by the syllabus page if there is one.
Page(title_text, meta_description, soups) ==
    [error |-> FALSE, title_text |-> title_text,
     meta_description |-> meta_description, soups |-> soups]

\* The request fails: fetch_course_page catches the exception.
page_error ==
    [error |-> TRUE, title_text |-> None, meta_description |-> None,
     soups |-> <<>>]

\* No title element; the page text is "Course Home": no relation named.
page_bare ==
    Page(None, None,
         <<PageSoup(<<>>,
                    <<"C", "o", "u", "r", "s", "e", " ", "H", "o", "m", "e">>,
                    <<>>)>>)

\* The title "Course Home", without an identifier; the page text is
\* "Course Home\nPrerequisite: 18.01", the prerequisite being found twice
\* by Methods 1 to 3.
page_untitled ==
    Page(<<"C", "o", "u", "r", "s", "e", " ", "H", "o", "m", "e">>,
         None,
         <<PageSoup(<<prereq_text_c, prereq_text_c>>,
                    <<"C", "o", "u", "r", "s", "e", " ", "H", "o", "m",
                      "e", "\n", "P", "r", "e", "r", "e", "q", "u", "i",
                      "s", "i", "t", "e", ":", " ", "1", "8", ".", "0", "1">>,
                    <<>>)>>)

\* Title 18.02; prerequisites named on the main page, whose text is
\* "18.02 Multivariable\nPrerequisite: 18.01, 18.02", and on the syllabus
\* page, whose text is "Syllabus\nPrerequisites: 18.01 or 99.99.": the
\* course itself is among them.
page_18_02 ==
    Page(title_18_02, None,
         <<PageSoup(<<prereq_text_b, prereq_text_a>>,
                    <<"1", "8", ".", "0", "2", " ", "M", "u", "l", "t",
                      "i", "v", "a", "r", "i", "a", "b", "l", "e", "\n",
                      "P", "r", "e", "r", "e", "q", "u", "i", "s", "i",
                      "t", "e", ":", " ", "1", "8", ".", "0", "1", ",",
                      " ", "1", "8", ".", "0", "2">>,
                    <<>>),
           PageSoup(<<prereq_text_a>>,
                    <<"S", "y", "l", "l", "a", "b", "u", "s", "\n", "P",
                      "r", "e", "r", "e", "q", "u", "i", "s", "i", "t",
                      "e", "s", ":", " ", "1", "8", ".", "0", "1", " ",
                      "o", "r", " ", "9", "9", ".", "9", "9", ".">>,
                    <<>>)>>)

\* Title 18.01; the description " Calculus of one variable. "; the page
\* text is "18.01 Calculus\nCorequisite: 18.02", and the corequisite scan
\* hands over "Corequisite: 18.02".
page_18_01 ==
    Page(title_18_01,
         <<" ", "C", "a", "l", "c", "u", "l", "u", "s", " ", "o", "f", " ",
           "o", "n", "e", " ", "v", "a", "r", "i", "a", "b", "l", "e", ".",
           " ">>,
         <<PageSoup(<<>>,
                    <<"1", "8", ".", "0", "1", " ", "C", "a", "l", "c",
                      "u", "l", "u", "s", "\n", "C", "o", "r", "e", "q",
                      "u", "i", "s", "i", "t", "e", ":", " ", "1", "8",
                      ".", "0", "2">>,
                    <<<<"C", "o", "r", "e", "q", "u", "i", "s", "i", "t",
                        "e", ":", " ", "1", "8", ".", "0", "2">>>>)>>)

\* Title "6.006 Algorithms"; one element holds the text "Prerequisites:
\* 6.042 or 18.01. Corequisites: 8.01", which names both keywords, so that
\* Methods 1 to 3 and the corequisite scan each hand it over whole; the
\* page text is "6.006 Algorithms\nPrerequisites: 6.042 or 18.01.
\* Corequisites: 8.01".
page_6_006 ==
    Page(<<"6", ".", "0", "0", "6", " ", "A", "l", "g", "o", "r", "i", "t",
           "h", "m", "s">>,
         None,
         <<PageSoup(<<relations_text>>,
                    <<"6", ".", "0", "0", "6", " ", "A", "l", "g", "o",
                      "r", "i", "t", "h", "m", "s", "\n", "P", "r", "e",
                      "r", "e", "q", "u", "i", "s", "i", "t", "e", "s",
                      ":", " ", "6", ".", "0", "4", "2", " ", "o", "r",
                      " ", "1", "8", ".", "0", "1", ".", " ", "C", "o",
                      "r", "e", "q", "u", "i", "s", "i", "t", "e", "s",
                      ":", " ", "8", ".", "0", "1">>,
                    <<relations_text>>)>>)

\* What the site may answer to a request.
Pages ==
    {page_error, page_bare, page_untitled, page_18_02, page_18_01,
     page_6_006}

(***************************************************************************)
(* _add_sample_courses                                                     *)
(***************************************************************************)

\* "Mathematics"
mathematics ==
    <<"M", "a", "t", "h", "e", "m", "a", "t", "i", "c", "s">>

\* "Electrical Engineering and Computer Science"
eecs ==
    <<"E", "l", "e", "c", "t", "r", "i", "c", "a", "l", " ", "E", "n", "g",
      "i", "n", "e", "e", "r", "i", "n", "g", " ", "a", "n", "d", " ", "C",
      "o", "m", "p", "u", "t", "e", "r", " ", "S", "c", "i", "e", "n", "c",
      "e">>

\* "Undergraduate"
undergraduate ==
    <<"U", "n", "d", "e", "r", "g", "r", "a", "d", "u", "a", "t", "e">>

\* Lines 450-491.  corequisites is the [] of __post_init__; ocw_published
\* keeps its default, False.
sample_courses ==
    <<
      \* "Single Variable Calculus", "https://ocw.mit.edu/courses/18-01-single-variable-calculus-fall-2006/"
      Course(id_18_01,
             <<"S", "i", "n", "g", "l", "e", " ", "V", "a", "r", "i", "a",
               "b", "l", "e", " ", "C", "a", "l", "c", "u", "l", "u", "s">>,
             <<"h", "t", "t", "p", "s", ":", "/", "/", "o", "c", "w", ".",
               "m", "i", "t", ".", "e", "d", "u", "/", "c", "o", "u", "r",
               "s", "e", "s", "/", "1", "8", "-", "0", "1", "-", "s", "i",
               "n", "g", "l", "e", "-", "v", "a", "r", "i", "a", "b", "l",
               "e", "-", "c", "a", "l", "c", "u", "l", "u", "s", "-", "f",
               "a", "l", "l", "-", "2", "0", "0", "6", "/">>,
             mathematics, undergraduate, None, <<>>, <<>>, FALSE),
      \* "Multivariable Calculus", "https://ocw.mit.edu/courses/18-02-multivariable-calculus-fall-2007/"
      Course(id_18_02,
             <<"M", "u", "l", "t", "i", "v", "a", "r", "i", "a", "b", "l",
               "e", " ", "C", "a", "l", "c", "u", "l", "u", "s">>,
             <<"h", "t", "t", "p", "s", ":", "/", "/", "o", "c", "w", ".",
               "m", "i", "t", ".", "e", "d", "u", "/", "c", "o", "u", "r",
               "s", "e", "s", "/", "1", "8", "-", "0", "2", "-", "m", "u",
               "l", "t", "i", "v", "a", "r", "i", "a", "b", "l", "e", "-",
               "c", "a", "l", "c", "u", "l", "u", "s", "-", "f", "a", "l",
               "l", "-", "2", "0", "0", "7", "/">>,
             mathematics, undergraduate, None, <<id_18_01>>, <<>>, FALSE),
      \* "Mathematics for Computer Science", "https://ocw.mit.edu/courses/6-042j-mathematics-for-computer-science-fall-2010/"
      Course(id_6_042,
             <<"M", "a", "t", "h", "e", "m", "a", "t", "i", "c", "s", " ",
               "f", "o", "r", " ", "C", "o", "m", "p", "u", "t", "e", "r",
               " ", "S", "c", "i", "e", "n", "c", "e">>,
             <<"h", "t", "t", "p", "s", ":", "/", "/", "o", "c", "w", ".",
               "m", "i", "t", ".", "e", "d", "u", "/", "c", "o", "u", "r",
               "s", "e", "s", "/", "6", "-", "0", "4", "2", "j", "-", "m",
               "a", "t", "h", "e", "m", "a", "t", "i", "c", "s", "-", "f",
               "o", "r", "-", "c", "o", "m", "p", "u", "t", "e", "r", "-",
               "s", "c", "i", "e", "n", "c", "e", "-", "f", "a", "l", "l",
               "-", "2", "0", "1", "0", "/">>,
             eecs, undergraduate, None, <<>>, <<>>, FALSE),
      \* "Introduction to Algorithms", "https://ocw.mit.edu/courses/6-006-introduction-to-algorithms-fall-2011/"
      Course(id_6_006,
             <<"I", "n", "t", "r", "o", "d", "u", "c", "t", "i", "o", "n",
               " ", "t", "o", " ", "A", "l", "g", "o", "r", "i", "t", "h",
               "m", "s">>,
             <<"h", "t", "t", "p", "s", ":", "/", "/", "o", "c", "w", ".",
               "m", "i", "t", ".", "e", "d", "u", "/", "c", "o", "u", "r",
               "s", "e", "s", "/", "6", "-", "0", "0", "6", "-", "i", "n",
               "t", "r", "o", "d", "u", "c", "t", "i", "o", "n", "-", "t",
               "o", "-", "a", "l", "g", "o", "r", "i", "t", "h", "m", "s",
               "-", "f", "a", "l", "l", "-", "2", "0", "1", "1", "/">>,
             eecs, undergraduate, None, <<id_6_042>>, <<>>, FALSE),
      \* "Design and Analysis of Algorithms", "https://ocw.mit.edu/courses/6-046j-design-and-analysis-of-algorithms-spring-2015/"
      Course(id_6_046,
             <<"D", "e", "s", "i", "g", "n", " ", "a", "n", "d", " ", "A",
               "n", "a", "l", "y", "s", "i", "s", " ", "o", "f", " ", "A",
               "l", "g", "o", "r", "i", "t", "h", "m", "s">>,
             <<"h", "t", "t", "p", "s", ":", "/", "/", "o", "c", "w", ".",
               "m", "i", "t", ".", "e", "d", "u", "/", "c", "o", "u", "r",
               "s", "e", "s", "/", "6", "-", "0", "4", "6", "j", "-", "d",
               "e", "s", "i", "g", "n", "-", "a", "n", "d", "-", "a", "n",
               "a", "l", "y", "s", "i", "s", "-", "o", "f", "-", "a", "l",
               "g", "o", "r", "i", "t", "h", "m", "s", "-", "s", "p", "r",
               "i", "n", "g", "-", "2", "0", "1", "5", "/">>,
             eecs, undergraduate, None, <<id_6_006>>, <<>>, FALSE)>>

\* Lines 493-494.
RECURSIVE add_courses(_, _)
add_courses(d, cs) ==
    IF cs = <<>> THEN d ELSE add_courses(upsert(d, Head(cs)), Tail(cs))

_add_sample_courses(d) == add_courses(d, sample_courses)


(***************************************************************************)
(* run, followed by analyze_graph on the graph it wrote                    *)
(***************************************************************************)

\* Line 417.
total_courses ==
    IF max_courses = <<>> THEN Len(course_urls)
    ELSE IF max_courses[1] < Len(course_urls) THEN max_courses[1]
    ELSE Len(course_urls)

\* Line 420: course_urls[:total_courses] if max_courses else course_urls;
\* None and 0 are both falsy.
selected_urls ==
    IF max_courses # <<>> /\ max_courses[1] # 0
    THEN Slice(course_urls, 1, total_courses)
    ELSE course_urls

\* For each course_id of cs, the last Course of cs that has it.
last_assigned(cs) ==
    [id \in {cs[k].course_id : k \in DOMAIN cs} |->
        cs[MaxOf({k \in DOMAIN cs : cs[k].course_id = id})]]

PipelineIdle ==
    /\ course_urls = <<>>
    /\ max_courses = <<>>
    /\ idx = 0
    /\ courses = <<>>
    /\ previous = <<>>
    /\ course = NoneRecord
    /\ id_source = "none"
    /\ mined = NoneRecord
    /\ upserted = <<>>
    /\ graph = NoneRecord
    /\ stats = NoneRecord

RecognizerIdle ==
    /\ text = <<>>
    /\ recognized = None
    /\ found = <<>>

MergerIdle ==
    /\ candidates = <<>>
    /\ own_id = None
    /\ merged = <<>>

\* run is called on a new MITOCWScraper (self.courses = {}, line 57), and
\* fetch_course_list has returned.
Init ==
    /\ pc = "run"
    /\ course_urls \in UrlLists
    /\ max_courses \in MaxCoursesArgs
    /\ idx = 0
    /\ courses = <<>>
    /\ previous = <<>>
    /\ course = NoneRecord
    /\ id_source = "none"
    /\ mined = NoneRecord
    /\ upserted = <<>>
    /\ graph = NoneRecord
    /\ stats = NoneRecord
    /\ RecognizerIdle
    /\ MergerIdle

\* Lines 412-414: no URL was found.
AddSampleCourses ==
    /\ pc = "run"
    /\ course_urls = <<>>
    /\ courses' = _add_sample_courses(courses)
    /\ previous' = courses
    /\ upserted' = last_assigned(sample_courses) @@ upserted
    /\ pc' = "build"
    /\ UNCHANGED <<text, recognized, found, candidates, own_id, merged,
                   course_urls, max_courses, idx, course, id_source, mined, graph,
                   stats>>

\* Lines 415-418: some URL was found.
StartFetching ==
    /\ pc = "run"
    /\ course_urls # <<>>
    /\ pc' = "fetch"
    /\ UNCHANGED <<text, recognized, found, candidates, own_id, merged,
                   course_urls, max_courses, idx, courses, previous, course,
                   id_source, mined, upserted, graph, stats>>

\* A loop that starts the store afresh when a course fails.
StoreFetchedResetting(fetched, page) ==
    /\ course' = fetched
    /\ id_source' = course_id_source(fetched, page)
    /\ mined' = mined_lists(page)
    /\ previous' = courses
    /\ IF fetched # NoneRecord
       THEN /\ courses' = upsert(courses, fetched)
            /\ upserted' = (fetched.course_id :> fetched) @@ upserted
       ELSE /\ courses' = <<>>
            /\ upserted' = upserted

\* Lines 423-425, `fetched` being what fetch_course_page returned.
StoreFetched(fetched, page) ==
    /\ course' = fetched
    /\ id_source' = course_id_source(fetched, page)
    /\ mined' = mined_lists(page)
    /\ previous' = courses
    /\ IF fetched # NoneRecord
       THEN /\ courses' = upsert(courses, fetched)
            /\ upserted' = (fetched.course_id :> fetched) @@ upserted
       ELSE UNCHANGED <<courses, upserted>>

\* Lines 420-425: one turn of the loop, the site answering with `page`.
FetchCourse ==
    /\ pc = "fetch"
    /\ idx < Len(selected_urls)
    /\ \E page \in Pages :
           StoreFetched(fetch_course_page(selected_urls[idx + 1], page), page)
    /\ idx' = idx + 1
    /\ UNCHANGED <<pc, text, recognized, found, candidates, own_id, merged,
                   course_urls, max_courses, graph, stats>>

\* A build_graph that turns the store round while it reads it.
BuildGraphMoving ==
    /\ \/ pc = "build"
       \/ (pc = "fetch" /\ idx = Len(selected_urls))
    /\ graph' = build_graph(courses)
    /\ courses' = [k \in DOMAIN courses |-> courses[Len(courses) + 1 - k]]
    /\ pc' = "done"
    /\ UNCHANGED <<text, recognized, found, candidates, own_id, merged,
                   course_urls, max_courses, idx, previous, course,
                   id_source, mined, upserted, stats>>

\* A run that builds the graph without waiting for the end of the loop.
BuildGraphEarly ==
    /\ pc \in {"build", "fetch"}
    /\ graph' = build_graph(courses)
    /\ pc' = "done"
    /\ UNCHANGED <<text, recognized, found, candidates, own_id, merged,
                   course_urls, max_courses, idx, courses, previous, course,
                   id_source, mined, upserted, stats>>

\* Lines 427-446, after the loop or the sample courses.
BuildGraph ==
    /\ \/ pc = "build"
       \/ (pc = "fetch" /\ idx = Len(selected_urls))
    /\ graph' = build_graph(courses)
    /\ pc' = "done"
    /\ UNCHANGED <<text, recognized, found, candidates, own_id, merged,
                   course_urls, max_courses, idx, courses, previous, course,
                   id_source, mined, upserted, stats>>

\* stats.py run on the graph file that run wrote.
AnalyzeGraph ==
    /\ pc = "done"
    /\ stats' = analyze_graph(graph)
    /\ pc' = "analyzed"
    /\ UNCHANGED <<text, recognized, found, candidates, own_id, merged,
                   course_urls, max_courses, idx, courses, previous, course,
                   id_source, mined, upserted, graph>>

\* A caller calls build_graph once more on the scraper run has returned
\* from (lines 356-403).
BuildGraphAgain ==
    /\ pc = "done"
    /\ graph' = build_graph(courses)
    /\ UNCHANGED <<pc, text, recognized, found, candidates, own_id, merged,
                   course_urls, max_courses, idx, courses, previous, course,
                   id_source, mined, upserted, stats>>

Next ==
    \/ AddSampleCourses
    \/ StartFetching
    \/ FetchCourse
    \/ BuildGraph
    \/ BuildGraphAgain
    \/ AnalyzeGraph

Spec == Init /\ [][Next]_vars

(***************************************************************************)
(* The Graph Analyzer alone: analyze_graph applied to a graph document     *)
(***************************************************************************)

\* The longest node list and the longest edge list enumerated.
MaxNodes == 2

MaxEdges == 2

\* Nodes as build_graph writes them for a sample course and for a fetched
\* course (department and level None), and a node without the two keys.
NodeChoices ==
    {[id |-> id_18_01, title |-> title_18_01, department |-> mathematics,
      level |-> undergraduate],
     [id |-> id_18_02, title |-> title_18_02, department |-> None,
      level |-> None],
     [id |-> id_6_042, title |-> id_6_042]}

\* Edges of both types, one of them from an id that no node has.
EdgeChoices ==
    {[source |-> id_18_01, target |-> id_18_02, type |-> "prerequisite"],
     [source |-> id_18_01, target |-> id_18_02, type |-> "corequisite"],
     [source |-> id_6_042, target |-> id_18_02, type |-> "prerequisite"],
     [source |-> id_18_02, target |-> id_6_042, type |-> "prerequisite"],
     [source |-> id_99_99, target |-> id_18_01, type |-> "prerequisite"]}

\* A JSON object with the given keys out of nodes, edges and metadata.
Document(keys, nodes, edges, metadata) ==
    [key \in keys |->
        CASE key = "nodes" -> nodes
          [] key = "edges" -> edges
          [] OTHER -> metadata]

\* One more course than the top list holds, in an order that is not that
\* of the ids.
TopTargets ==
    <<id_18_02, id_6_046, id_18_01, id_99_99, id_6_006, id_6_042>>

\* The longest list of prerequisite edges into the courses of TopTargets.
MaxTopEdges == 7

\* The lists of S, and each of them with one more edge, into a course
\* already met or into the next course of TopTargets.
one_more_edge(S) ==
    S \cup UNION {{Append(s, t) :
                     t \in 1..MinOf({Cardinality(Range(s)) + 1,
                                     Len(TopTargets)})} : s \in S}

\* The lists of at most n targets, as positions in TopTargets, the courses
\* being first met in the order of TopTargets.
RECURSIVE target_lists(_)
target_lists(n) ==
    IF n = 0 THEN {<<>>} ELSE one_more_edge(target_lists(n - 1))

\* Documents with up to MaxTopEdges prerequisite edges into up to
\* top_limit + 1 courses, after two corequisite edges or none; two of the
\* courses are nodes.
TopDocuments ==
    {Document({"nodes", "edges", "metadata"},
              [k \in 1..2 |-> [id |-> TopTargets[k], title |-> title_18_02]],
              (IF with_corequisites
               THEN [k \in 1..2 |->
                        [source |-> id_18_01A,
                         target |-> TopTargets[Len(TopTargets)],
                         type |-> "corequisite"]]
               ELSE <<>>)
                  \o [k \in DOMAIN targets |->
                         [source |-> id_18_01A,
                          target |-> TopTargets[targets[k]],
                          type |-> "prerequisite"]],
              [total_courses |-> 2]) :
        targets \in target_lists(MaxTopEdges),
        with_corequisites \in BOOLEAN}

\* What json.load may return, and NoneRecord for a file that is not there.
\* The metadata need not agree with the lists.
Documents ==
    {NoneRecord} \cup TopDocuments \cup
    {Document(keys, nodes, edges,
              [total_courses |-> 2, total_prerequisites |-> 1,
               total_corequisites |-> 0]) :
        keys \in SUBSET {"nodes", "edges", "metadata"},
        nodes \in UNION {[1..n -> NodeChoices] : n \in 0..MaxNodes},
        edges \in UNION {[1..n -> EdgeChoices] : n \in 0..MaxEdges}}

\* stats.py is run on a graph file (lines 135-139).
InitAnalyzer ==
    /\ pc = "done"
    /\ graph \in Documents
    /\ stats = NoneRecord
    /\ course_urls = <<>>
    /\ max_courses = <<>>
    /\ idx = 0
    /\ courses = <<>>
    /\ previous = <<>>
    /\ course = NoneRecord
    /\ id_source = "none"
    /\ mined = NoneRecord
    /\ upserted = <<>>
    /\ RecognizerIdle
    /\ MergerIdle

SpecAnalyzer == InitAnalyzer /\ [][AnalyzeGraph]_vars

(***************************************************************************)
(* The Identifier Recognizer alone: extract_course_id and                  *)
(* parse_prerequisites applied to a text                                   *)
(***************************************************************************)

\* "18.01"
text_18_01 ==
    <<"1", "8", ".", "0", "1">>

\* "6.042J intro"
text_6_042J ==
    <<"6", ".", "0", "4", "2", "J", " ", "i", "n", "t", "r", "o">>

\* "no ids here"
text_no_ids ==
    <<"n", "o", " ", "i", "d", "s", " ", "h", "e", "r", "e">>

\* The longest text enumerated over the characters 1, 2, . and j.
MaxTextLen == 6

\* The texts extract_course_id and parse_prerequisites are applied to: the
\* examples, then "see 16.042j and 18.01", "118.0123ab 18.01" and
\* "Prerequisites: 6.042 or 18.01. Corequisites: 8.01", then every text of
\* at most MaxTextLen characters, and the keyword of Method 4, singular or
\* plural, followed by at most MaxTextLen colons, digits, full stops and
\* newlines.
Texts ==
    {text_18_01, text_6_042J, text_no_ids, prereq_text_a, prereq_text_b,
     title_18_02,
     <<"s", "e", "e", " ", "1", "6", ".", "0", "4", "2", "j", " ", "a",
       "n", "d", " ", "1", "8", ".", "0", "1">>,
     <<"1", "1", "8", ".", "0", "1", "2", "3", "a", "b", " ", "1", "8",
       ".", "0", "1">>,
     relations_text}
        \cup UNION {[1..n -> {"1", "2", ".", "j"}] : n \in 0..MaxTextLen}
        \cup {head \o tail :
                 head \in {keyword, <<"P", "r", "e", "r", "e", "q", "u",
                                      "i", "s", "i", "t", "e", "s">>},
                 tail \in UNION {[1..n -> {":", "1", ".", "\n"}] :
                                    n \in 0..MaxTextLen}}

InitRecognizer ==
    /\ pc = "extract"
    /\ text \in Texts
    /\ recognized = None
    /\ found = <<>>
    /\ MergerIdle
    /\ PipelineIdle

ExtractCourseId ==
    /\ pc = "extract"
    /\ recognized' = extract_course_id(text)
    /\ pc' = "parse"
    /\ UNCHANGED <<text, found, candidates, own_id, merged, course_urls,
                   max_courses, idx, courses, previous, course, id_source, mined,
                   upserted, graph, stats>>

ParsePrerequisites ==
    /\ pc = "parse"
    /\ found' = parse_prerequisites(text)
    /\ pc' = "parsed"
    /\ UNCHANGED <<text, recognized, candidates, own_id, merged, course_urls,
                   max_courses, idx, courses, previous, course, id_source, mined,
                   upserted, graph, stats>>

\* Method 4 (lines 284-290) with the text as page text, `prerequisites`
\* being empty before it.
ScanSentences ==
    /\ pc = "parsed"
    /\ candidates' = sentence_window_scan(text, 1)
    /\ pc' = "scanned"
    /\ UNCHANGED <<text, recognized, found, own_id, merged, course_urls,
                   max_courses, idx, courses, previous, course, id_source,
                   mined, upserted, graph, stats>>

NextRecognizer ==
    \/ ExtractCourseId
    \/ ParsePrerequisites
    \/ ScanSentences

SpecRecognizer == InitRecognizer /\ [][NextRecognizer]_vars

(***************************************************************************)
(* The Relation Merger alone: lines 302-309 applied to a candidate list    *)
(***************************************************************************)

CandidateIds == {id_18_01, id_18_01A, id_6_006, id_99_99}

\* The longest candidate list enumerated.
MaxCandidates == 3

CandidateLists == UNION {[1..n -> CandidateIds] : n \in 0..MaxCandidates}

\* The mining has produced `candidates`; course_id is that of the title, or
\* None.
InitMerger ==
    /\ pc = "merge"
    /\ candidates \in CandidateLists
    /\ own_id \in CandidateIds \cup {None}
    /\ merged = <<>>
    /\ RecognizerIdle
    /\ PipelineIdle

Merge ==
    /\ pc = "merge"
    /\ merged' = merge(candidates, own_id)
    /\ pc' = "merged"
    /\ UNCHANGED <<text, recognized, found, candidates, own_id, course_urls,
                   max_courses, idx, courses, previous, course, id_source, mined,
                   upserted, graph, stats>>

\* The merged list is merged again.
MergeAgain ==
    /\ pc = "merged"
    /\ candidates' = merged
    /\ merged' = merge(merged, own_id)
    /\ pc' = "remerged"
    /\ UNCHANGED <<text, recognized, found, own_id, course_urls,
                   max_courses, idx, courses, previous, course, id_source, mined,
                   upserted, graph, stats>>

NextMerger ==
    \/ Merge
    \/ MergeAgain

SpecMerger == InitMerger /\ [][NextMerger]_vars


(***************************************************************************)
(* Properties                                                              *)
(***************************************************************************)

\* run has called build_graph: `graph` is the graph of `courses`.
GraphBuilt == pc \in {"done", "analyzed"}

\* The identifiers a record lists, prerequisites then corequisites.
Listed(c) == Range(c.prerequisites) \cup Range(c.corequisites)

\* The number of edges of the graph from s to t of the type.
EdgeCount(s, t, type) ==
    Cardinality({k \in DOMAIN graph.edges :
                    /\ graph.edges[k].source = s
                    /\ graph.edges[k].target = t
                    /\ graph.edges[k].type = type})

\* The number of occurrences of p in the list.
Occurrences(ids, p) == Cardinality({j \in DOMAIN ids : ids[j] = p})

\* C1: in every graph that build_graph produces, the source and the target
\* of every edge are keys of the Course Record Store and ids of nodes of the
\* node list; an identifier that a record lists but that is no key of the
\* store is the source of no edge, and the graph has one node per record.
C1_EdgesWithinStore ==
    GraphBuilt =>
        /\ \A k \in DOMAIN graph.edges :
               /\ graph.edges[k].source \in dict_keys(courses)
               /\ graph.edges[k].target \in dict_keys(courses)
               /\ graph.edges[k].source \in Range(ids_of(graph.nodes))
               /\ graph.edges[k].target \in Range(ids_of(graph.nodes))
        /\ \A k \in DOMAIN courses :
               \A p \in Listed(courses[k].value) \ dict_keys(courses) :
                   \A e \in DOMAIN graph.edges :
                       /\ graph.edges[e].source # p
                       /\ graph.edges[e].target # p
        /\ Len(graph.nodes) = Cardinality(dict_keys(courses))

\* A graph with an edge was built from a store in which a record lists
\* 99.99, which was never fetched.
C1_Witness ==
    /\ pc = "done"
    /\ graph.edges # <<>>
    /\ id_99_99 \notin dict_keys(courses)
    /\ \E k \in DOMAIN courses : id_99_99 \in Listed(courses[k].value)

\* C2: for every record r of the store and every key p of the store, the
\* graph has exactly as many prerequisite (corequisite) edges with source p
\* and target r's identifier as p occurs in r.prerequisites
\* (r.corequisites), and it has no other edge.
C2_OneEdgePerOccurrence ==
    GraphBuilt =>
        /\ \A k \in DOMAIN courses : \A p \in dict_keys(courses) :
               /\ EdgeCount(p, courses[k].key, "prerequisite")
                      = Occurrences(courses[k].value.prerequisites, p)
               /\ EdgeCount(p, courses[k].key, "corequisite")
                      = Occurrences(courses[k].value.corequisites, p)
        /\ \A e \in DOMAIN graph.edges :
               /\ graph.edges[e].type \in {"prerequisite", "corequisite"}
               /\ graph.edges[e].source \in dict_keys(courses)
               /\ graph.edges[e].target \in dict_keys(courses)

\* A graph with a prerequisite edge and a corequisite edge, built from a
\* store that also lists an identifier that is no key.
C2_Witness ==
    /\ pc = "done"
    /\ \E e \in DOMAIN graph.edges : graph.edges[e].type = "prerequisite"
    /\ \E e \in DOMAIN graph.edges : graph.edges[e].type = "corequisite"
    /\ \E k \in DOMAIN courses :
           Listed(courses[k].value) \ dict_keys(courses) # {}

\* C3: the record stored under an identifier is exactly the record last
\* upserted with that identifier, and the upsert of a record leaves the
\* records of all other identifiers as they were.
C3_UpsertReplaces ==
    /\ dict_keys(courses) = DOMAIN upserted
    /\ Len(courses) = Cardinality(dict_keys(courses))
    /\ \A k \in DOMAIN courses : courses[k].value = upserted[courses[k].key]
    /\ course # NoneRecord =>
           /\ dict_keys(courses)
                  = dict_keys(previous) \cup {course.course_id}
           /\ dict_get(courses, course.course_id) = course
           /\ \A j \in DOMAIN previous :
                  previous[j].key # course.course_id =>
                      dict_get(courses, previous[j].key) = previous[j].value

\* The last upsert replaced a record that differed from the new one, in a
\* store that held another record too.
C3_Witness ==
    /\ course # NoneRecord
    /\ course.course_id \in dict_keys(previous)
    /\ dict_get(previous, course.course_id).prerequisites
           # course.prerequisites
    /\ dict_get(previous, course.course_id).url # course.url
    /\ Len(previous) >= 2
    /\ dict_get(courses, course.course_id) = course

\* C4: no stored record lists its own identifier among its prerequisites or
\* its corequisites, whether the identifier came from the title or heading
\* or from the URL fallback.
C4_NoSelfReference ==
    \A k \in DOMAIN courses :
        /\ courses[k].key \notin Range(courses[k].value.prerequisites)
        /\ courses[k].key \notin Range(courses[k].value.corequisites)

\* A record whose identifier came from the URL is stored with its own
\* identifier among its prerequisites.
C4_SelfReferenceStored ==
    /\ id_source = "url"
    /\ course # NoneRecord
    /\ course.course_id \in Range(course.prerequisites)
    /\ course.course_id \in dict_keys(courses)
    /\ dict_get(courses, course.course_id) = course

\* C5: the merged list has no duplicates, is in ascending lexicographic
\* order, never contains the own identifier, and holds exactly the distinct
\* candidates other than the own identifier.  These four determine the
\* list, so it depends on the set of candidates only.
C5_MergedList ==
    pc \in {"merged", "remerged"} =>
        /\ \A i, j \in DOMAIN merged : i # j => merged[i] # merged[j]
        /\ \A i \in 1..(Len(merged) - 1) : StrLess(merged[i], merged[i + 1])
        /\ own_id \notin Range(merged)
        /\ Range(merged) = Range(candidates) \ {own_id}

\* A candidate list with a duplicate, out of order and holding the own
\* identifier was merged into a list that is not empty.
C5_Witness ==
    /\ pc = "merged"
    /\ own_id \in Range(candidates)
    /\ Cardinality(Range(candidates)) < Len(candidates)
    /\ \E i \in 1..(Len(candidates) - 1) :
           StrLess(candidates[i + 1], candidates[i])
    /\ Len(merged) >= 1

\* C6: merging a merged list again, with the same own identifier, gives the
\* same list.
C6_MergeIdempotent ==
    pc = "remerged" => merged = candidates

\* A merged list of two or more, from which the own identifier was
\* removed, has been merged again.
C6_Witness ==
    /\ pc = "remerged"
    /\ own_id # None
    /\ Len(merged) >= 2

\* Two digits, a dot, two or three digits and at most one letter.
CourseNumberShape(w) ==
    /\ Len(w) \in 5..7
    /\ IsDigit(w[1]) /\ IsDigit(w[2]) /\ w[3] = "."
    /\ IsDigit(w[4]) /\ IsDigit(w[5])
    /\ Len(w) = 6 => IsDigit(w[6]) \/ IsLetter(w[6])
    /\ Len(w) = 7 => IsDigit(w[6]) /\ IsLetter(w[7])

\* The canonical Course Identifier: the shape, upper-cased.
Canonical(w) == CourseNumberShape(w) /\ Upper(w) = w

\* The substrings of s that have the shape, as <<start, end>>.
Shaped(s) ==
    {m \in (DOMAIN s) \X (DOMAIN s) :
        m[1] <= m[2] /\ CourseNumberShape(SubSeq(s, m[1], m[2]))}

\* The first of them in document order, the longest at that position.
FirstShaped(s) ==
    CHOOSE m \in Shaped(s) :
        \A n \in Shaped(s) : m[1] < n[1] \/ (m[1] = n[1] /\ m[2] >= n[2])

\* "6.042J"
id_6_042J == <<"6", ".", "0", "4", "2", "J">>

\* C7: extract_course_id returns the first substring of the text that has
\* the course-number shape, upper-cased, and nothing when there is none:
\* "18.01" for "18.01", "6.042J" for "6.042J intro", nothing for
\* "no ids here".
C7_FirstShapedSubstring ==
    pc # "extract" =>
        /\ recognized = IF Shaped(text) = {} THEN None
                        ELSE Upper(SubSeq(text, FirstShaped(text)[1],
                                          FirstShaped(text)[2]))
        /\ text = text_18_01 => recognized = id_18_01
        /\ text = text_6_042J => recognized = id_6_042J
        /\ text = text_no_ids => recognized = None

\* extract_course_id was applied to "6.042J intro" and returned None.
C7_NothingRecognized ==
    /\ pc = "parse"
    /\ text = text_6_042J
    /\ recognized = None

\* C8: every key of the Course Record Store, which is also its record's
\* id, is a canonical Course Identifier (two digits, a dot, two or three
\* digits, at most one letter, upper-cased), whether it came from the title
\* or from the URL fallback.
C8_CanonicalKeys ==
    \A k \in DOMAIN courses :
        /\ courses[k].key = courses[k].value.course_id
        /\ Canonical(courses[k].key)

\* A record whose identifier came from the URL is stored under a key that
\* is not canonical.
C8_UrlKeyNotCanonical ==
    /\ id_source = "url"
    /\ course # NoneRecord
    /\ course.course_id \in dict_keys(courses)
    /\ ~Canonical(course.course_id)

\* The entries of the lists of the records: <<record, position>>.
PrerequisiteEntries ==
    UNION {{<<k, j>> : j \in DOMAIN courses[k].value.prerequisites} :
              k \in DOMAIN courses}

CorequisiteEntries ==
    UNION {{<<k, j>> : j \in DOMAIN courses[k].value.corequisites} :
              k \in DOMAIN courses}

\* C9: in the metadata of the graph, total_courses is the number of records
\* of the store, total_prerequisites the number of entries of the
\* prerequisites of all records, total_corequisites that of the
\* corequisites, whether or not an entry gives an edge.
C9_MetadataCounters ==
    GraphBuilt =>
        /\ graph.metadata.total_courses = Cardinality(dict_keys(courses))
        /\ graph.metadata.total_prerequisites
               = Cardinality(PrerequisiteEntries)
        /\ graph.metadata.total_corequisites
               = Cardinality(CorequisiteEntries)

\* A graph whose total_prerequisites counts an entry that gave no edge, and
\* whose total_corequisites is not 0.
C9_Witness ==
    /\ pc = "done"
    /\ graph.metadata.total_prerequisites
           > Cardinality({e \in DOMAIN graph.edges :
                             graph.edges[e].type = "prerequisite"})
    /\ graph.metadata.total_corequisites > 0
    /\ graph.metadata.total_courses >= 2

\* The store {18.01: prereqs=[], 18.02: prereqs=[18.01], 6.042: prereqs=[]}.
ScenarioStore ==
    /\ Len(courses) = 3
    /\ dict_keys(courses) = {id_18_01, id_18_02, id_6_042}
    /\ dict_get(courses, id_18_01).prerequisites = <<>>
    /\ dict_get(courses, id_18_02).prerequisites = <<id_18_01>>
    /\ dict_get(courses, id_6_042).prerequisites = <<>>
    /\ \A k \in DOMAIN courses : courses[k].value.corequisites = <<>>

\* C10: for the store {18.01: [], 18.02: [18.01], 6.042: []} build_graph
\* yields 3 nodes, the one edge from 18.01 to 18.02 of type prerequisite and
\* total_prerequisites = 1, and analyze_graph finds the entry points
\* {18.01, 6.042} and the end points {18.02, 6.042}.
C10_Scenario ==
    ScenarioStore =>
        /\ GraphBuilt =>
               /\ Len(graph.nodes) = 3
               /\ Range(ids_of(graph.nodes)) = {id_18_01, id_18_02, id_6_042}
               /\ Len(graph.edges) = 1
               /\ graph.edges[1].source = id_18_01
               /\ graph.edges[1].target = id_18_02
               /\ graph.edges[1].type = "prerequisite"
               /\ graph.metadata.total_prerequisites = 1
        /\ pc = "analyzed" =>
               /\ Range(stats.entry_points) = {id_18_01, id_6_042}
               /\ Len(stats.entry_points) = 2
               /\ Range(stats.end_points) = {id_18_02, id_6_042}
               /\ Len(stats.end_points) = 2

\* The graph of the scenario store has been built and analyzed.
C10_Witness ==
    /\ pc = "analyzed"
    /\ ScenarioStore


(***************************************************************************)
(* The analyzer's figures against the document it read                     *)
(***************************************************************************)

\* analyze_graph has returned the figures of a document that has both a
\* node list and an edge list.
Analyzed ==
    /\ pc = "analyzed"
    /\ graph # NoneRecord
    /\ {"nodes", "edges"} \subseteq DOMAIN graph

NodeIds == [k \in DOMAIN graph.nodes |-> graph.nodes[k].id]

EdgeTargets == {graph.edges[k].target : k \in DOMAIN graph.edges}

EdgeSources == {graph.edges[k].source : k \in DOMAIN graph.edges}

\* list is the elements of ids at the positions of `kept`, in order.
IsSelection(list, ids, kept) ==
    /\ Len(list) = Cardinality(kept)
    /\ \A p \in kept :
           list[Cardinality({q \in kept : q <= p})] = ids[p]

KeyMissing ==
    /\ pc = "analyzed"
    /\ graph # NoneRecord
    /\ ~({"nodes", "edges"} \subseteq DOMAIN graph)

\* C12: given a document that lacks the key `nodes` or the key `edges`, the
\* analyzer stops with a fatal error; it reports no figures computed from a
\* default, empty list.
C12_MissingKeyIsFatal ==
    KeyMissing => /\ "exit" \in DOMAIN stats
                  /\ "total_courses" \notin DOMAIN stats

\* A document without `nodes` but with an edge: the analyzer went on with
\* the default [] and reports 0 courses next to 1 edge.
C12_DefaultUsed ==
    /\ KeyMissing
    /\ "nodes" \notin DOMAIN graph
    /\ "exit" \notin DOMAIN stats
    /\ stats.total_courses = 0
    /\ stats.total_edges = 1
    /\ stats.entry_points = <<>>

(***************************************************************************)
(* Mining "Prerequisites: 6.042 or 18.01. Corequisites: 8.01"              *)
(***************************************************************************)

\* "8.01"
id_8_01 ==
    <<"8", ".", "0", "1">>

\* The loop has just fetched course 6.006 from the page that holds the
\* text "Prerequisites: 6.042 or 18.01. Corequisites: 8.01".
ScenarioMined ==
    /\ pc = "fetch"
    /\ idx > 0
    /\ selected_urls[idx] = url_6_006
    /\ course # NoneRecord
    /\ course.title = page_6_006.title_text
    /\ course.course_id = id_6_006

\* C13: mining "Prerequisites: 6.042 or 18.01. Corequisites: 8.01" for
\* course 6.006 yields the prerequisites {6.042, 18.01} and the
\* corequisites {8.01}: what follows one keyword is not reported under the
\* other, and identifiers with a one-digit department are recognized.
C13_ScenarioRelations ==
    ScenarioMined =>
        /\ Range(course.prerequisites) = {id_6_042, id_18_01}
        /\ Range(course.corequisites) = {id_8_01}

\* Course 6.006 is stored with 18.01 alone as prerequisite and 18.01 as
\* corequisite: 6.042 and 8.01 are not recognized, and the prerequisite
\* 18.01 is reported as a corequisite.
C13_OnlyTwoDigitFound ==
    /\ ScenarioMined
    /\ mined.prerequisites = <<id_18_01>>
    /\ mined.corequisites = <<id_18_01>>
    /\ course.prerequisites = <<id_18_01>>
    /\ course.corequisites = <<id_18_01>>
    /\ dict_get(courses, id_6_006) = course

(***************************************************************************)
(* The node list                                                           *)
(***************************************************************************)

\* The position of url in the list the loop goes through.
FetchedAt(url) == IndexOf(selected_urls, url)

\* C14: the node list has exactly one node per record of the store, in the
\* store's iteration order, with pairwise distinct ids; a record upserted
\* several times contributes one node.
C14_OneNodePerRecord ==
    GraphBuilt =>
        /\ Len(graph.nodes) = Len(courses)
        /\ \A k \in DOMAIN courses :
               /\ graph.nodes[k].id = courses[k].key
               /\ graph.nodes[k].id = courses[k].value.course_id
               /\ graph.nodes[k].url = courses[k].value.url
        /\ \A j, k \in DOMAIN graph.nodes :
               graph.nodes[j].id = graph.nodes[k].id => j = k

\* A graph of two or more nodes built from a store in which a record was
\* upserted again after a later record had been added: it stands before
\* that record although its URL was fetched after it.
C14_Witness ==
    /\ GraphBuilt
    /\ course_urls # <<>>
    /\ Len(graph.nodes) >= 2
    /\ \E j, k \in DOMAIN courses :
           /\ j < k
           /\ FetchedAt(courses[j].value.url) > FetchedAt(courses[k].value.url)

(***************************************************************************)
(* The analyzer's groupings                                                *)
(***************************************************************************)

\* "Unknown"
UnknownBucket == <<"U", "n", "k", "n", "o", "w", "n">>

\* The bucket of the node under the key: its value, or "Unknown" when the
\* key is absent or holds None.
BucketOf(node, key) ==
    IF key \in DOMAIN node /\ node[key] # None THEN node[key]
    ELSE UnknownBucket

\* `groups` partitions the node list by the key: the bucket names are
\* pairwise distinct, every node's bucket is there with it as a member, the
\* count of a bucket is the number of nodes that fall in it, no bucket is
\* empty, and the counts sum to the number of nodes.
IsPartition(groups, key) ==
    /\ \A g, h \in DOMAIN groups : groups[g].name = groups[h].name => g = h
    /\ \A k \in DOMAIN graph.nodes :
           Cardinality({g \in DOMAIN groups :
                           groups[g].name = BucketOf(graph.nodes[k], key)})
               = 1
    /\ \A g \in DOMAIN groups :
           /\ groups[g].count
                  = Cardinality({k \in DOMAIN graph.nodes :
                        BucketOf(graph.nodes[k], key) = groups[g].name})
           /\ groups[g].count > 0
           /\ Len(groups[g].ids) = groups[g].count
    /\ SumSeq([g \in DOMAIN groups |-> groups[g].count]) = Len(graph.nodes)

\* C15: the department grouping and the level grouping each partition the
\* node list: every node falls in exactly one bucket, a node whose
\* department (resp. level) is absent falls in "Unknown", and the bucket
\* counts sum to the number of nodes.
C15_GroupingsPartition ==
    Analyzed =>
        /\ IsPartition(stats.departments, "department")
        /\ IsPartition(stats.levels, "level")

\* Two nodes, one with a department and a level and one without: two
\* buckets under each key, one of them "Unknown".
C15_Witness ==
    /\ Analyzed
    /\ Len(graph.nodes) = 2
    /\ Len(stats.departments) = 2
    /\ Len(stats.levels) = 2
    /\ \E g \in DOMAIN stats.departments :
           stats.departments[g].name = UnknownBucket
    /\ \E k \in DOMAIN graph.nodes : "department" \notin DOMAIN graph.nodes[k]

(***************************************************************************)
(* The analyzer's figures per relation kind                                *)
(***************************************************************************)

\* The figures of one kind hold the three numbers under the given names,
\* the first two non-negative and summing to the number of nodes.
ReportsInDegrees(kind_figures, with_key, without_key, max_key) ==
    /\ {with_key, without_key, max_key} \subseteq DOMAIN kind_figures
    /\ kind_figures[with_key] >= 0
    /\ kind_figures[without_key] >= 0
    /\ kind_figures[with_key] + kind_figures[without_key] = Len(graph.nodes)

\* C16: for each relation kind, prerequisite and corequisite alike, the
\* analyzer reports the number of courses with an incoming edge of the
\* kind, the number with none, and the maximum in-degree; for a graph that
\* build_graph produced the first two are non-negative and sum to the
\* number of nodes.
C16_BothKindsReported ==
    pc = "analyzed" =>
        /\ stats.prerequisites.found =>
               ReportsInDegrees(stats.prerequisites, "courses_with_prereqs",
                                "courses_without_prereqs", "max_prereqs")
        /\ stats.corequisites.found =>
               ReportsInDegrees(stats.corequisites, "courses_with_coreqs",
                                "courses_without_coreqs", "max_coreqs")

\* A built graph with edges of both kinds: the prerequisite figures hold
\* the three numbers, the corequisite figures only the number of courses
\* with corequisites and the number of corequisite edges.
C16_CorequisitesPartlyReported ==
    /\ pc = "analyzed"
    /\ stats.prerequisites.found
    /\ ReportsInDegrees(stats.prerequisites, "courses_with_prereqs",
                        "courses_without_prereqs", "max_prereqs")
    /\ stats.corequisites.found
    /\ DOMAIN stats.corequisites
           = {"found", "courses_with_coreqs", "total_coreqs"}

\* C17: given a graph with an empty node list and no edges, the analyzer
\* completes without error and every count it reports is zero: total
\* courses, total edges, courses with prerequisites, entry points and end
\* points.
C17_EmptyGraphAllZero ==
    Analyzed /\ graph.nodes = <<>> /\ graph.edges = <<>> =>
        /\ "exit" \notin DOMAIN stats
        /\ stats.total_courses = 0
        /\ stats.total_edges = 0
        /\ ~stats.prerequisites.found
        /\ ~stats.corequisites.found
        /\ stats.departments = <<>>
        /\ stats.levels = <<>>
        /\ Len(stats.entry_points) = 0
        /\ Len(stats.end_points) = 0

\* The analyzer has returned on a document whose lists are empty and whose
\* metadata announces two courses.
C17_Witness ==
    /\ Analyzed
    /\ graph.nodes = <<>>
    /\ graph.edges = <<>>
    /\ "metadata" \in DOMAIN graph
    /\ graph.metadata.total_courses = 2
    /\ stats.total_courses = 0

(***************************************************************************)
(* build_graph and the order of the steps of run                           *)
(***************************************************************************)

MergedFrom(list, mined_list, c, source) ==
    /\ Len(list) = Cardinality(Range(list))
    /\ Range(list)
           = Range(mined_list)
                 \ (IF source = "title" THEN {c.course_id} ELSE {})

\* C19: the graph is assembled only after every selected course URL has
\* been processed; a course's record is upserted only after its
\* prerequisites and its corequisites have been mined and merged; and no
\* upsert happens after build_graph has started.
C19_StepsInOrder ==
    [][/\ (pc # "done" /\ pc' = "done" /\ course_urls # <<>>) =>
              idx = Len(selected_urls)
       /\ (courses' # courses /\ course_urls # <<>>) =>
              /\ pc = "fetch" /\ pc' = "fetch"
              /\ course' # NoneRecord
              /\ courses' = upsert(courses, course')
              /\ MergedFrom(course'.prerequisites, mined'.prerequisites,
                            course', id_source')
              /\ MergedFrom(course'.corequisites, mined'.corequisites,
                            course', id_source')
       /\ (pc \in {"done", "analyzed"}) =>
              /\ courses' = courses
              /\ upserted' = upserted
              /\ idx' = idx]_vars

\* The graph was built after three URLs were processed, the last one giving
\* a record whose prerequisites were merged from a longer mined list.
C19_Witness ==
    /\ pc = "done"
    /\ Len(selected_urls) = 3
    /\ idx = 3
    /\ course # NoneRecord
    /\ dict_get(courses, course.course_id) = course
    /\ course.prerequisites # <<>>
    /\ Len(mined.prerequisites) > Len(course.prerequisites)
    /\ graph = build_graph(courses)

(***************************************************************************)
(* Failures while one course is processed                                  *)
(***************************************************************************)

\* The last turn of the loop got no Course: the request failed, or no
\* identifier was found in the title or the URL.
NothingFetched == idx > 0 /\ course = NoneRecord

\* The last turn of the loop read a page on which no strategy found an
\* identifier.
NoMentions ==
    /\ idx > 0
    /\ mined # NoneRecord
    /\ mined.prerequisites = <<>>
    /\ mined.corequisites = <<>>

\* The run goes on: the loop has a next turn while URLs are left, then the
\* graph is built, and it is built after the last URL only.
RunGoesOn ==
    /\ (pc = "fetch" /\ idx < Len(selected_urls)) => ENABLED FetchCourse
    /\ (pc = "fetch" /\ idx = Len(selected_urls)) => ENABLED BuildGraph
    /\ (GraphBuilt /\ course_urls # <<>>) => idx = Len(selected_urls)

\* C20, as stated: after a page fetch error, a page with no identifier in
\* title or URL, or a page with no relation mentions, the store is as it
\* was before that course, and the run goes on to the remaining URLs and
\* to the graph.
C20_FailureLeavesStore ==
    /\ (NothingFetched \/ NoMentions) => courses = previous
    /\ RunGoesOn

\* C20, amended: a fetch error or a missing identifier leaves the store as
\* it was; a course without relation mentions is upserted with empty
\* prerequisites and corequisites; in each case the run goes on to the
\* remaining URLs and to the graph.
C20_FailureIsLocal ==
    /\ NothingFetched => courses = previous
    /\ (NoMentions /\ course # NoneRecord) =>
           /\ courses = upsert(previous, course)
           /\ course.prerequisites = <<>>
           /\ course.corequisites = <<>>
    /\ RunGoesOn

\* The first two courses failed and left the store empty, the third, whose
\* page names no relation, was processed and stored with empty lists, and
\* the graph was built with its node.
C20_Witness ==
    /\ pc = "done"
    /\ selected_urls = <<url_18_01, url_18_02, url_6_042>>
    /\ idx = 3
    /\ NoMentions
    /\ previous = <<>>
    /\ dict_keys(courses) = {id_6_042}
    /\ course.prerequisites = <<>>
    /\ Len(graph.nodes) = 1

(***************************************************************************)
(* The courses with most prerequisites                                     *)
(***************************************************************************)

\* The positions in the edge list of the prerequisite edges into t.
PrerequisitesInto(t) ==
    {k \in DOMAIN graph.edges :
        /\ graph.edges[k].type = "prerequisite"
        /\ graph.edges[k].target = t}

InDegree(t) == Cardinality(PrerequisitesInto(t))

\* The position of the first prerequisite edge into t.
FirstEdge(t) == MinOf(PrerequisitesInto(t))

\* Course a goes before course b: more prerequisites, or as many and met
\* earlier in the edge list.
GoesBefore(a, b) ==
    \/ InDegree(a) > InDegree(b)
    \/ (InDegree(a) = InDegree(b) /\ FirstEdge(a) < FirstEdge(b))

TopCourses ==
    [k \in DOMAIN stats.prerequisites.top_prereqs |->
        stats.prerequisites.top_prereqs[k].course_id]

\* C21: the list of courses with most prerequisites has at most 5 entries,
\* is in non-increasing order of prerequisite in-degree, holds no course
\* with a smaller in-degree than an omitted one, and orders and selects
\* courses of equal in-degree by the position of their first incoming
\* prerequisite edge in the edge list.
C21_TopFive ==
    (Analyzed /\ stats.prerequisites.found) =>
        /\ Len(TopCourses) <= 5
        /\ \A k \in DOMAIN TopCourses :
               /\ InDegree(TopCourses[k]) > 0
               /\ stats.prerequisites.top_prereqs[k].count
                      = InDegree(TopCourses[k])
        /\ \A j, k \in DOMAIN TopCourses :
               j < k => GoesBefore(TopCourses[j], TopCourses[k])
        /\ \A t \in EdgeTargets \ Range(TopCourses) :
               InDegree(t) > 0 =>
                   /\ Len(TopCourses) = 5
                   /\ \A k \in DOMAIN TopCourses :
                          GoesBefore(TopCourses[k], t)

\* Six courses have prerequisites: five are listed, the one omitted has as
\* many prerequisites as the last one listed, and the list is not in the
\* order in which the courses were first met.
C21_Witness ==
    /\ Analyzed
    /\ stats.prerequisites.found
    /\ Len(TopCourses) = 5
    /\ \E t \in EdgeTargets \ Range(TopCourses) :
           /\ InDegree(t) > 0
           /\ InDegree(t) = InDegree(TopCourses[5])
    /\ \E j, k \in DOMAIN TopCourses :
           j < k /\ FirstEdge(TopCourses[j]) > FirstEdge(TopCourses[k])
    /\ \E k \in DOMAIN graph.edges : graph.edges[k].type = "corequisite"

(***************************************************************************)
(* The edges of the graphs run assembles                                   *)
(***************************************************************************)

\* C22: in every graph assembled from a store that run populated, from
\* fetched pages or from the sample courses, no edge has its source equal
\* to its target.
C22_NoSelfLoop ==
    GraphBuilt =>
        \A k \in DOMAIN graph.edges :
            graph.edges[k].source # graph.edges[k].target

\* A graph built from fetched pages with a prerequisite edge from a course
\* to itself: the course's record lists its own id, which came from the
\* URL.
C22_SelfLoopBuilt ==
    /\ GraphBuilt
    /\ course_urls # <<>>
    /\ \E k \in DOMAIN graph.edges :
           /\ graph.edges[k].source = graph.edges[k].target
           /\ graph.edges[k].type = "prerequisite"
           /\ graph.edges[k].target
                  \in Range(dict_get(courses,
                                     graph.edges[k].target).prerequisites)

(***************************************************************************)
(* Method 4 alone                                                          *)
(***************************************************************************)

\* C23: the sentence-window scan (Method 4) never contributes an
\* identifier: its window ends at the first full stop or newline after the
\* keyword and every identifier contains a full stop, so for every page
\* text what it extracts is empty.
C23_ScanFindsNothing ==
    pc = "scanned" => candidates = <<>>

\* The scan has gone through a text in which the keyword is followed by a
\* window and parse_prerequisites finds an identifier, and has added
\* nothing.
C23_Witness ==
    /\ pc = "scanned"
    /\ sentence_matches(text, 1) # {}
    /\ found # <<>>
    /\ candidates = <<>>

(***************************************************************************)
(* Edge counts against the metadata                                        *)
(***************************************************************************)

EdgesOfType(type) ==
    Cardinality({k \in DOMAIN graph.edges : graph.edges[k].type = type})

\* Every identifier that a record lists under the field is a key of the
\* store.
AllReferencedAreKeys(field) ==
    \A k \in DOMAIN courses :
        Range(courses[k].value[field]) \subseteq dict_keys(courses)

\* C24: in every assembled graph the number of prerequisite edges is at
\* most metadata.total_prerequisites and the number of corequisite edges at
\* most metadata.total_corequisites, with equality exactly when every
\* referenced identifier is a key of the store.
C24_EdgesWithinTotals ==
    GraphBuilt =>
        /\ EdgesOfType("prerequisite") <= graph.metadata.total_prerequisites
        /\ EdgesOfType("corequisite") <= graph.metadata.total_corequisites
        /\ (EdgesOfType("prerequisite") = graph.metadata.total_prerequisites)
               <=> AllReferencedAreKeys("prerequisites")
        /\ (EdgesOfType("corequisite") = graph.metadata.total_corequisites)
               <=> AllReferencedAreKeys("corequisites")

\* A graph with fewer prerequisite edges than total_prerequisites, a
\* prerequisite being no key, and as many corequisite edges as
\* total_corequisites, which is not 0.
C24_Witness ==
    /\ GraphBuilt
    /\ EdgesOfType("prerequisite") > 0
    /\ EdgesOfType("prerequisite") < graph.metadata.total_prerequisites
    /\ ~AllReferencedAreKeys("prerequisites")
    /\ EdgesOfType("corequisite") = graph.metadata.total_corequisites
    /\ graph.metadata.total_corequisites > 0

(***************************************************************************)
(* The max_courses argument                                                *)
(***************************************************************************)

\* C25: when run is called with an integer max_courses = n and URLs were
\* discovered, at most n course pages are processed and at most n records
\* are added to the store, for every n >= 0, n = 0 and n larger than the
\* list included.
C25_AtMostMaxCourses ==
    (max_courses # <<>> /\ course_urls # <<>>) =>
        /\ idx <= max_courses[1]
        /\ Len(courses) <= max_courses[1]

\* run(max_courses=0) on a list of two or more URLs has processed every one
\* of them and has built a graph with a node.
C25_ZeroProcessesAll ==
    /\ max_courses = <<0>>
    /\ Len(course_urls) >= 2
    /\ idx = Len(course_urls)
    /\ total_courses = 0
    /\ Len(courses) >= 1
    /\ GraphBuilt
    /\ Len(graph.nodes) >= 1

(***************************************************************************)
(* Graphs of fetched records                                               *)
(***************************************************************************)

\* run has built the graph of a store filled by fetch_course_page alone.
FetchedGraphBuilt == GraphBuilt /\ course_urls # <<>>

\* C26: in every graph assembled from records that fetch_course_page
\* produced, no two edges have the same source, target and type, and the
\* same source and target appear in at most two edges, one per type.
C26_NoDuplicateEdges ==
    FetchedGraphBuilt =>
        /\ \A j, k \in DOMAIN graph.edges :
               (/\ graph.edges[j].source = graph.edges[k].source
                /\ graph.edges[j].target = graph.edges[k].target
                /\ graph.edges[j].type = graph.edges[k].type) => j = k
        /\ \A k \in DOMAIN graph.edges :
               Cardinality({j \in DOMAIN graph.edges :
                               /\ graph.edges[j].source
                                      = graph.edges[k].source
                               /\ graph.edges[j].target
                                      = graph.edges[k].target}) <= 2

\* The last course fetched was mined with the same prerequisite found more
\* than once, and the graph has the one edge from that prerequisite to it.
C26_Witness ==
    /\ FetchedGraphBuilt
    /\ course # NoneRecord
    /\ Len(mined.prerequisites) > Cardinality(Range(mined.prerequisites))
    /\ \E p \in Range(course.prerequisites) :
           /\ Occurrences(mined.prerequisites, p) >= 2
           /\ EdgeCount(p, course.course_id, "prerequisite") = 1

\* The analyzer's groups are the single bucket "Unknown" holding every
\* node.
AllUnknown(groups) ==
    /\ Len(groups) = 1
    /\ groups[1].name = UnknownBucket
    /\ groups[1].count = Len(graph.nodes)

\* C27: every record that fetch_course_page produces has no department and
\* no level, so in the statistics of a graph built from fetched pages only
\* every node is counted in the "Unknown" department bucket and in the
\* "Unknown" level bucket.
C27_FetchedAreUnknown ==
    course_urls # <<>> =>
        /\ course # NoneRecord =>
               course.department = None /\ course.level = None
        /\ \A k \in DOMAIN courses :
               /\ courses[k].value.department = None
               /\ courses[k].value.level = None
        /\ (pc = "analyzed" /\ graph.nodes # <<>>) =>
               /\ AllUnknown(stats.departments)
               /\ AllUnknown(stats.levels)

\* The graph of three fetched courses has been analyzed: one department
\* bucket and one level bucket, "Unknown", of three nodes each.
C27_Witness ==
    /\ pc = "analyzed"
    /\ course_urls # <<>>
    /\ Len(graph.nodes) = 3
    /\ AllUnknown(stats.departments)
    /\ AllUnknown(stats.levels)
    /\ stats.departments[1].listed

====
